---------------------------- MODULE Spec2Model ----------------------------
(***************************************************************************)
(* A model of dolfinx_contact::Contact (src/cpp/Contact.cpp): the linked   *)
(* cell resolver compute_linked_cells, coefficients_size, the sparsity     *)
(* pattern extension of create_petsc_matrix and the per-facet loops of     *)
(* assemble_matrix and assemble_vector.                                    *)
(*                                                                         *)
(* C++ containers are 0-based; they are modelled as TLA+ sequences read    *)
(* through At(s, k) == s[k + 1].  PetscScalar values are modelled as exact *)
(* integers: rounding of floating-point addition is outside the model.     *)
(***************************************************************************)
EXTENDS Integers, Sequences, FiniteSets, TLC

VARIABLES
    facet_maps,     \* _facet_maps[s]: facet index -> candidate facets on the opposite submesh
    max_links,      \* _max_links[s]
    sub_facet_map,  \* _submeshes[s].facet_map(): submesh facet -> (submesh cell, local facet)
    ndebug,         \* TRUE when the build defines NDEBUG (assert compiled out)
    pc,             \* which call is running, and whether it has finished
    origin,         \* origin_meshtag of the running assembly call
    order,          \* order in which the facets of the origin surface are laid out
    i,              \* loop index of the running assembly call
    Aes,            \* element matrices of assemble_matrix
    bes,            \* element vectors of assemble_vector
    linked_cells,   \* the reused std::vector<std::int32_t> linked_cells
    A,              \* the matrix behind mat_set, a sequence of rows
    b,              \* the global vector b
    pattern,        \* the sparsity pattern: a set of (row dof, column dof) pairs
    kin,            \* the block set and num_linked_cells handed to the last kernel invocation
    calls,          \* the scatter-adds issued for the last facet processed
    rin,            \* inputs of a stand-alone compute_linked_cells call
    lin,            \* the five quantities coefficients_size reads
    lout,           \* the value coefficients_size returned
    fill            \* the value every entry of A, or of b, holds at call entry

vars == <<facet_maps, max_links, sub_facet_map, ndebug, pc, origin, order, i,
          Aes, bes, linked_cells, A, b, pattern, kin, calls, rin, lin, lout, fill>>

-----------------------------------------------------------------------------
(* Bounds of the model *)

\* largest number of candidates the two correspondence maps hold together
MaxData == 3
\* largest value the matrix behind mat_set, or the vector b, is filled with at call entry
MaxFill == 1
\* longest candidate list, and longest previous content, of a stand-alone resolver call
MaxLen == 3
\* largest value of each quantity read by coefficients_size
MaxParam == 4

-----------------------------------------------------------------------------
(* Containers *)

At(s, k) == s[k + 1]

Range(s) == {s[k] : k \in 1..Len(s)}

SeqsUpTo(S, n) == UNION {[1..m -> S] : m \in 0..n}

Max2(x, y) == IF x >= y THEN x ELSE y

SetMax(S) == CHOOSE x \in S : \A y \in S : y <= x

RECURSIVE SeqSum(_)
SeqSum(s) == IF s = <<>> THEN 0 ELSE Head(s) + SeqSum(Tail(s))

RECURSIVE Flatten(_)
Flatten(ss) == IF ss = <<>> THEN <<>> ELSE Head(ss) \o Flatten(Tail(ss))

Zeros(n) == [k \in 1..n |-> 0]

-----------------------------------------------------------------------------
(* compute_linked_cells *)

\* linked_cells.resize(n): keeps the leading elements, pads with 0
Resize(v, n) == [k \in 1..n |-> IF k <= Len(v) THEN v[k] ELSE 0]

\* the lambda of std::transform: facet -> parent_cells[sub_to_parent->links(facet)[0]]
ParentOfFacet(facet, sub_to_parent, parent_cells) ==
    At(parent_cells, At(At(sub_to_parent, facet), 0))

\* std::transform(first, last, d_first, op): writes one element of dst per element of src
Transform(dst, src, sub_to_parent, parent_cells) ==
    [k \in 1..Len(dst) |->
        IF k <= Len(src) THEN ParentOfFacet(src[k], sub_to_parent, parent_cells)
        ELSE dst[k]]

\* dolfinx::radix_sort: ascending sort, written as an insertion sort
RECURSIVE InsertSorted(_, _)
InsertSorted(s, x) ==
    IF s = <<>> THEN <<x>>
    ELSE IF x <= Head(s) THEN <<x>> \o s
    ELSE <<Head(s)>> \o InsertSorted(Tail(s), x)

RECURSIVE radix_sort(_)
radix_sort(s) ==
    IF s = <<>> THEN <<>> ELSE InsertSorted(radix_sort(Tail(s)), Head(s))

\* erase(std::unique(first, last), last): drops each element equal to its predecessor
RECURSIVE Unique(_)
Unique(s) ==
    IF Len(s) <= 1 THEN s
    ELSE IF s[1] = s[2] THEN Unique(Tail(s))
    ELSE <<s[1]>> \o Unique(Tail(s))

\* a plausible slip: the duplicates are removed without sorting first
compute_linked_cells_nosort(linked, submesh_facets, sub_to_parent, parent_cells) ==
    Unique(Transform(Resize(linked, Len(submesh_facets)), submesh_facets,
                     sub_to_parent, parent_cells))

compute_linked_cells(linked, submesh_facets, sub_to_parent, parent_cells) ==
    Unique(radix_sort(Transform(Resize(linked, Len(submesh_facets)), submesh_facets,
                                sub_to_parent, parent_cells)))

\* assert(facet_pair.size() == 2) holds for every candidate
PairsOk(submesh_facets, sub_to_parent) ==
    \A k \in 1..Len(submesh_facets) : Len(At(sub_to_parent, submesh_facets[k])) = 2


-----------------------------------------------------------------------------
(* The mesh, the function space and the two surface restrictions.  Surface 0
   holds two facets, of cells 2 and 0; surface 1 holds the two facets of
   cell 1.  Cells 0 and 2 share dof 1. *)

\* dofmap->cell_dofs(cell)
cell_dofs(cell) == At(<< <<0, 1>>, <<2, 3>>, <<1, 4>> >>, cell)

Cells == 0..2

\* dofmap->cell_dofs(0).size()
ndofs_cell == Len(cell_dofs(0))

\* dofmap->bs()
bs == 2

\* number of entries of the global vector, and of rows of the matrix
NumRows == bs * (1 + SetMax(UNION {Range(cell_dofs(c)) : c \in Cells}))

\* _cell_facet_pairs[s]: (cell, local facet index) of each facet of surface s
cell_facet_pairs(s) ==
    IF s = 0 THEN << <<2, 0>>, <<0, 1>> >> ELSE << <<1, 0>>, <<1, 1>> >>

NumFacets(s) == Len(cell_facet_pairs(s))

\* _opposites[s]
opposites(s) == 1 - s

\* _submeshes[s].parent_cells(): submesh cell -> cell of the parent mesh
parent_cells(s) == IF s = 0 THEN <<2, 0>> ELSE <<1>>

\* _submeshes[s].facet_map() as dolfinx_contact::SubMesh builds it
SubMeshFacetMap(s) ==
    IF s = 0 THEN << <<0, 0>>, <<1, 1>> >> ELSE << <<0, 0>>, <<0, 1>> >>

\* a plausible slip: the buffers are sized from the first surface alone
max_links_first == max_links[0]

\* std::max(_max_links[0], _max_links[1])
max_links_both == Max2(max_links[0], max_links[1])

-----------------------------------------------------------------------------
(* The injected callbacks *)

\* what the kernel adds to entry e of block blk for facet f of surface o: it is
\* a function of the kernel's inputs (the facet's coefficient slice, cell
\* geometry and local facet index)
KernelValue(o, f, blk, e) == 1 + o + 2 * f + 3 * blk + 7 * e

\* kernel(blocks, ..., num_linked_cells): accumulates into blocks 0..last
Kernel(blocks, o, f, last) ==
    [k \in 1..Len(blocks) |->
        IF k - 1 <= last
        THEN [e \in 1..Len(blocks[k]) |-> blocks[k][e] + KernelValue(o, f, k - 1, e - 1)]
        ELSE blocks[k]]

\* what mat_set(rows, cols, vals) adds to entry (r, c) of the matrix: entry
\* (bs * ii + a, bs * jj + c) of the row-major block vals goes to row
\* bs * rows[ii] + a and column bs * cols[jj] + c
MatSetAdds(rows, cols, vals, r, c) ==
    SeqSum([p \in 1..(Len(rows) * Len(cols)) |->
        LET ii == (p - 1) \div Len(cols)
            jj == (p - 1) % Len(cols)
        IN  IF At(rows, ii) = r \div bs /\ At(cols, jj) = c \div bs
            THEN At(vals, (bs * ii + (r % bs)) * (bs * Len(cols)) + bs * jj + (c % bs))
            ELSE 0])

\* mat_set(rows, cols, vals), additive: the matrix after the call
mat_set(M, rows, cols, vals) ==
    [r \in 1..Len(M) |->
        IF ((r - 1) \div bs) \in Range(rows)
        THEN [c \in 1..Len(M[r]) |->
                IF ((c - 1) \div bs) \in Range(cols)
                THEN M[r][c] + MatSetAdds(rows, cols, vals, r - 1, c - 1)
                ELSE M[r][c]]
        ELSE M[r]]

\* the matrix after the mat_set calls cs, in their order
RECURSIVE ApplyMatSets(_, _)
ApplyMatSets(M, cs) ==
    IF cs = <<>> THEN M
    ELSE ApplyMatSets(mat_set(M, Head(cs).rows, Head(cs).cols, Head(cs).vals), Tail(cs))

\* what b[bs * dofs[j] + k] += blk[bs * j + k], for j < ndofs_cell and k < bs,
\* adds to entry idx of b
BlockAdds(dofs, blk, idx) ==
    SeqSum([p \in 1..ndofs_cell |->
        IF At(dofs, p - 1) = idx \div bs THEN At(blk, bs * (p - 1) + (idx % bs)) ELSE 0])

\* the vector after the scatter-adds cs
ApplyAdds(v, cs) ==
    [x \in 1..Len(v) |->
        v[x] + SeqSum([k \in 1..Len(cs) |-> BlockAdds(cs[k].rows, cs[k].vals, x - 1)])]

-----------------------------------------------------------------------------
(* The loop body of assemble_matrix *)

None == [none |-> TRUE]

\* a plausible slip: only the self block is zeroed
ZeroedSelfOnly(n) == {0}

\* the indices of Aes filled with zeros before the kernel runs
ZeroedMat(n) == {0} \cup UNION {{3 * j + 1, 3 * j + 2, 3 * j + 3} : j \in 0..(n - 1)}

\* std::fill(blocks[k].begin(), blocks[k].end(), 0) for every k of idx
FillZero(blocks, idx) ==
    [k \in 1..Len(blocks) |-> IF (k - 1) \in idx THEN Zeros(Len(blocks[k])) ELSE blocks[k]]

\* a plausible slip: the linked x linked block is never scattered
CrossCallsNoDiagonal(blocks, dmap_cell, dmap_linked, j) ==
    << [rows |-> dmap_cell,   cols |-> dmap_linked, blk |-> 3 * j + 1, vals |-> At(blocks, 3 * j + 1)],
       [rows |-> dmap_linked, cols |-> dmap_cell,   blk |-> 3 * j + 2, vals |-> At(blocks, 3 * j + 2)] >>

\* the three mat_set calls of linked cell j
CrossCalls(blocks, dmap_cell, dmap_linked, j) ==
    << [rows |-> dmap_cell,   cols |-> dmap_linked, blk |-> 3 * j + 1, vals |-> At(blocks, 3 * j + 1)],
       [rows |-> dmap_linked, cols |-> dmap_cell,   blk |-> 3 * j + 2, vals |-> At(blocks, 3 * j + 2)],
       [rows |-> dmap_linked, cols |-> dmap_linked, blk |-> 3 * j + 3, vals |-> At(blocks, 3 * j + 3)] >>

\* one iteration of the loop over active_facets, for facet f of surface o:
\* what it leaves in Aes and linked_cells, what the kernel was handed and the
\* mat_set calls it issues; oob when a block past the end of Aes is accessed
MatrixBody(blocks, linked, o, f) ==
    LET cell   == At(At(cell_facet_pairs(o), f), 0)
        lc     == compute_linked_cells(linked, At(facet_maps[o], f),
                                       sub_facet_map[opposites(o)], parent_cells(opposites(o)))
        n      == Len(lc)
        idx    == ZeroedMat(n)
        zeroed == FillZero(blocks, idx)
        after  == Kernel(zeroed, o, f, 3 * n)
        dmap   == cell_dofs(cell)
    IN  IF \E k \in idx : k >= Len(blocks)
        THEN [oob |-> TRUE, Aes |-> blocks, linked |-> lc, kin |-> None, calls |-> <<>>]
        ELSE [oob    |-> FALSE,
              Aes    |-> after,
              linked |-> lc,
              kin    |-> [blocks |-> zeroed, num_linked |-> n, zeroed |-> idx, facet |-> f],
              calls  |-> << [rows |-> dmap, cols |-> dmap, blk |-> 0, vals |-> At(after, 0)] >>
                         \o Flatten([j \in 1..n |->
                                CrossCalls(after, dmap, cell_dofs(lc[j]), j - 1)])]

-----------------------------------------------------------------------------
(* The loop body of assemble_vector *)

\* the indices of bes filled with zeros before the kernel runs
ZeroedVec(n) == {0} \cup {j + 1 : j \in 0..(n - 1)}

\* a plausible slip: the scatter-add of linked cell l reads bes[l]
LinkedBlockOffByOne(l) == l

\* the scatter-add of linked cell l reads bes[l + 1]
LinkedBlock(l) == l + 1

VectorBody(blocks, linked, o, f) ==
    LET cell   == At(At(cell_facet_pairs(o), f), 0)
        lc     == compute_linked_cells(linked, At(facet_maps[o], f),
                                       sub_facet_map[opposites(o)], parent_cells(opposites(o)))
        n      == Len(lc)
        idx    == ZeroedVec(n)
        zeroed == FillZero(blocks, idx)
        after  == Kernel(zeroed, o, f, n)
    IN  IF \E k \in idx : k >= Len(blocks)
        THEN [oob |-> TRUE, bes |-> blocks, linked |-> lc, kin |-> None, calls |-> <<>>]
        ELSE [oob    |-> FALSE,
              bes    |-> after,
              linked |-> lc,
              kin    |-> [blocks |-> zeroed, num_linked |-> n, zeroed |-> idx, facet |-> f],
              calls  |-> << [rows |-> cell_dofs(cell), cols |-> <<>>, blk |-> 0,
                             vals |-> At(after, 0)] >>
                         \o [l \in 1..n |->
                                [rows |-> cell_dofs(lc[l]), cols |-> <<>>,
                                 blk |-> LinkedBlock(l - 1),
                                 vals |-> At(after, LinkedBlock(l - 1))]]]

-----------------------------------------------------------------------------
(* create_petsc_matrix *)

\* dolfinx::fem::create_sparsity_pattern(a): the couplings within each cell
BasePattern == UNION {Range(cell_dofs(c)) \X Range(cell_dofs(c)) : c \in Cells}

\* pattern.insert(rows, cols)
PatternInsert(P, rows, cols) == P \cup (Range(rows) \X Range(cols))

\* a plausible slip: only (cell dofs x linked dofs) is inserted
InsertOneWay(P, dofs, linked_dofs) == PatternInsert(P, dofs, linked_dofs)

\* pattern.insert(cell_dofs, linked_dofs); pattern.insert(linked_dofs, cell_dofs)
InsertBoth(P, dofs, linked_dofs) ==
    PatternInsert(PatternInsert(P, dofs, linked_dofs), linked_dofs, dofs)

\* linked_dofs of facet f of surface s: the dofs of every linked cell, sorted,
\* without duplicates
LinkedDofs(s, f) ==
    LET links == At(facet_maps[s], f)
    IN  Unique(radix_sort(Flatten(
            [k \in 1..Len(links) |->
                cell_dofs(At(parent_cells(opposites(s)),
                             At(At(sub_facet_map[opposites(s)], links[k]), 0)))])))

\* the loop over the facets of surface s, from facet f on
RECURSIVE PatternFacets(_, _, _)
PatternFacets(P, s, f) ==
    IF f >= NumFacets(s) THEN P
    ELSE PatternFacets(InsertBoth(P, cell_dofs(At(At(cell_facet_pairs(s), f), 0)),
                                  LinkedDofs(s, f)),
                       s, f + 1)

\* the loop over the two surfaces
PatternSurfaces(P) == PatternFacets(PatternFacets(P, 0, 0), 1, 0)

-----------------------------------------------------------------------------
(* coefficients_size *)

\* *std::max_element(_max_links.begin(), _max_links.end())
MaxElement(a) == SetMax({a[s] : s \in DOMAIN a})

\* a plausible slip: the number of linked cells is left out of the stride
LayoutSizeNoLinks(num_q_points, gdim, ndofs, blocksize, links) ==
    3 + num_q_points * (2 * gdim + ndofs * blocksize + blocksize) + ndofs * blocksize

\* the returned expression; the std::size_t arithmetic is modelled where it
\* does not wrap
LayoutSize(num_q_points, gdim, ndofs, blocksize, links) ==
    3 + num_q_points * (2 * gdim + ndofs * blocksize * links + blocksize) + ndofs * blocksize

coefficients_size ==
    LayoutSize(lin.num_q_points, lin.gdim, lin.ndofs_cell, lin.bs, MaxElement(max_links))

-----------------------------------------------------------------------------
(* The correspondence maps and MaxLinks *)

\* the cells linked to a facet of surface s whose candidates are cands
LinkedCellSet(s, cands) ==
    {At(parent_cells(opposites(s)), At(At(sub_facet_map[opposites(s)], cands[k]), 0)) :
        k \in 1..Len(cands)}

\* the number of candidates map m holds
DataSize(m) == SeqSum([k \in 1..Len(m) |-> Len(m[k])])

\* the correspondence maps a surface may hold
MapsFor(s) ==
    {m \in [1..NumFacets(s) -> SeqsUpTo(0..(NumFacets(opposites(s)) - 1), MaxData)] :
        DataSize(m) <= MaxData}

\* MaxLinks of surface s under map m
MaxLinksOf(s, m) == SetMax({Cardinality(LinkedCellSet(s, m[k])) : k \in 1..Len(m)})

Perms(n) == {p \in [1..n -> 0..(n - 1)] : Range(p) = 0..(n - 1)}

-----------------------------------------------------------------------------
(* Actions *)

Surfaces == {0, 1}

Idle ==
    /\ pc = "idle" /\ origin = 0 /\ order = <<>> /\ i = 0 /\ Aes = <<>> /\ bes = <<>>
    /\ linked_cells = <<>> /\ A = <<>> /\ b = <<>> /\ pattern = {} /\ kin = None
    /\ calls = <<>> /\ fill = 0

\* The object after construction and a first, empty, correspondence map per
\* surface.  Every entry of the submesh facet maps is a pair, so no assert can
\* fail and the two builds behave alike: the build with asserts is taken.
Init ==
    /\ facet_maps = [s \in Surfaces |-> [k \in 1..NumFacets(s) |-> <<>>]]
    /\ max_links = [s \in Surfaces |-> 0]
    /\ sub_facet_map = [s \in Surfaces |-> SubMeshFacetMap(s)]
    /\ ndebug = FALSE
    /\ rin = None /\ lin = None /\ lout = 0
    /\ Idle

\* the correspondence map of surface s is recomputed, and MaxLinks with it
UpdateMap(s, m) ==
    /\ pc = "idle"
    /\ m # facet_maps[s]
    /\ DataSize(m) + DataSize(facet_maps[opposites(s)]) <= MaxData
    /\ facet_maps' = [facet_maps EXCEPT ![s] = m]
    /\ max_links' = [max_links EXCEPT ![s] = MaxLinksOf(s, m)]
    /\ UNCHANGED <<sub_facet_map, ndebug, pc, origin, order, i, Aes, bes, linked_cells,
                   A, b, pattern, kin, calls, rin, lin, lout, fill>>

\* Aes as assemble_matrix allocates it: 3 * max_links + 1 zeroed blocks
NewAes == [k \in 1..(3 * max_links_both + 1) |-> Zeros(bs * ndofs_cell * bs * ndofs_cell)]

\* bes as assemble_vector allocates it: max_links + 1 zeroed blocks
NewBes == [k \in 1..(max_links_both + 1) |-> Zeros(bs * ndofs_cell)]

\* the matrix behind mat_set, and the vector b, at call entry
FilledMatrix(f0) == [r \in 1..NumRows |-> [c \in 1..NumRows |-> f0]]

FilledVector(f0) == [k \in 1..NumRows |-> f0]

\* assemble_matrix up to its loop
BeginMatrix(o, ord, f0) ==
    /\ pc = "idle"
    /\ pc' = "matrix" /\ origin' = o /\ order' = ord /\ i' = 0 /\ fill' = f0
    /\ Aes' = NewAes
    /\ linked_cells' = <<>>
    /\ A' = FilledMatrix(f0)
    /\ kin' = None /\ calls' = <<>>
    /\ UNCHANGED <<facet_maps, max_links, sub_facet_map, ndebug, bes, b, pattern,
                   rin, lin, lout>>

\* one iteration of the loop of assemble_matrix
MatrixFacet ==
    /\ pc = "matrix" /\ i < NumFacets(origin)
    /\ LET f == At(order, i)
           r == MatrixBody(Aes, linked_cells, origin, f)
       IN  IF ~ndebug /\ ~PairsOk(At(facet_maps[origin], f), sub_facet_map[opposites(origin)])
           THEN /\ pc' = "aborted"
                /\ UNCHANGED <<i, Aes, linked_cells, A, kin, calls>>
           ELSE IF r.oob
           THEN /\ pc' = "ub"
                /\ UNCHANGED <<i, Aes, linked_cells, A, kin, calls>>
           ELSE /\ pc' = pc /\ i' = i + 1
                /\ Aes' = r.Aes /\ linked_cells' = r.linked
                /\ kin' = r.kin /\ calls' = r.calls
                /\ A' = ApplyMatSets(A, r.calls)
    /\ UNCHANGED <<facet_maps, max_links, sub_facet_map, ndebug, origin, order, bes, b,
                   pattern, rin, lin, lout, fill>>

\* assemble_vector up to its loop
BeginVector(o, ord, f0) ==
    /\ pc = "idle"
    /\ pc' = "vector" /\ origin' = o /\ order' = ord /\ i' = 0 /\ fill' = f0
    /\ bes' = NewBes
    /\ linked_cells' = <<>>
    /\ b' = FilledVector(f0)
    /\ kin' = None /\ calls' = <<>>
    /\ UNCHANGED <<facet_maps, max_links, sub_facet_map, ndebug, Aes, A, pattern,
                   rin, lin, lout>>

\* one iteration of the loop of assemble_vector
VectorFacet ==
    /\ pc = "vector" /\ i < NumFacets(origin)
    /\ LET f == At(order, i)
           r == VectorBody(bes, linked_cells, origin, f)
       IN  IF ~ndebug /\ ~PairsOk(At(facet_maps[origin], f), sub_facet_map[opposites(origin)])
           THEN /\ pc' = "aborted"
                /\ UNCHANGED <<i, bes, linked_cells, b, kin, calls>>
           ELSE IF r.oob
           THEN /\ pc' = "ub"
                /\ UNCHANGED <<i, bes, linked_cells, b, kin, calls>>
           ELSE /\ pc' = pc /\ i' = i + 1
                /\ bes' = r.bes /\ linked_cells' = r.linked
                /\ kin' = r.kin /\ calls' = r.calls
                /\ b' = ApplyAdds(b, r.calls)
    /\ UNCHANGED <<facet_maps, max_links, sub_facet_map, ndebug, origin, order, Aes, A,
                   pattern, rin, lin, lout, fill>>

\* create_petsc_matrix: the pattern handed to la::petsc::create_matrix
CreatePetscMatrix ==
    /\ pc = "idle"
    /\ pc' = "pattern"
    /\ pattern' = PatternSurfaces(BasePattern)
    /\ UNCHANGED <<facet_maps, max_links, sub_facet_map, ndebug, origin, order, i, Aes,
                   bes, linked_cells, A, b, kin, calls, rin, lin, lout, fill>>

\* the call returns to the caller
Return ==
    /\ \/ pc \in {"matrix", "vector"} /\ i = NumFacets(origin)
       \/ pc = "pattern"
    /\ pc' = "idle" /\ origin' = 0 /\ order' = <<>> /\ i' = 0 /\ Aes' = <<>> /\ bes' = <<>>
    /\ linked_cells' = <<>> /\ A' = <<>> /\ b' = <<>> /\ pattern' = {} /\ kin' = None
    /\ calls' = <<>> /\ fill' = 0
    /\ UNCHANGED <<facet_maps, max_links, sub_facet_map, ndebug, rin, lin, lout>>

Next ==
    \/ \E s \in Surfaces : \E m \in MapsFor(s) : UpdateMap(s, m)
    \/ \E o \in Surfaces : \E ord \in Perms(NumFacets(o)) : \E f0 \in 0..MaxFill :
          BeginMatrix(o, ord, f0)
    \/ MatrixFacet
    \/ \E o \in Surfaces : \E ord \in Perms(NumFacets(o)) : \E f0 \in 0..MaxFill :
          BeginVector(o, ord, f0)
    \/ VectorFacet
    \/ CreatePetscMatrix
    \/ Return

Spec == Init /\ [][Next]_vars

\* the whole loop of assemble_matrix over the facets in the order ord, from
\* position k on: the matrix it leaves
RECURSIVE RunMatrixFrom(_, _, _, _, _, _)
RunMatrixFrom(M, blocks, linked, o, ord, k) ==
    IF k > Len(ord) THEN M
    ELSE LET r == MatrixBody(blocks, linked, o, ord[k])
         IN  RunMatrixFrom(ApplyMatSets(M, r.calls), r.Aes, r.linked, o, ord, k + 1)

RunMatrix(o, ord, f0) == RunMatrixFrom(FilledMatrix(f0), NewAes, <<>>, o, ord, 1)

\* the whole loop of assemble_vector over the facets in the order ord, from
\* position k on: the vector it leaves
RECURSIVE RunVectorFrom(_, _, _, _, _, _)
RunVectorFrom(v, blocks, linked, o, ord, k) ==
    IF k > Len(ord) THEN v
    ELSE LET r == VectorBody(blocks, linked, o, ord[k])
         IN  RunVectorFrom(ApplyAdds(v, r.calls), r.bes, r.linked, o, ord, k + 1)

RunVector(o, ord, f0) == RunVectorFrom(FilledVector(f0), NewBes, <<>>, o, ord, 1)

-----------------------------------------------------------------------------
(* The claims about the assembly calls, stated from the data model: the
   LinkedCellSet of a facet is the set of parent cells of its candidates, and
   its entry j is its j-th smallest member *)

\* maxLinksGlobal as the claims state it: the larger of the two MaxLinks
MaxLinksGlobal == IF max_links[0] >= max_links[1] THEN max_links[0] ELSE max_links[1]

Candidates(s, f) == At(facet_maps[s], f)

OwningCell(s, f) == At(At(cell_facet_pairs(s), f), 0)

LinkedOf(s, f) == LinkedCellSet(s, Candidates(s, f))

SortedSeqOf(S) ==
    CHOOSE q \in [1..Cardinality(S) -> S] :
        \A k \in 1..Cardinality(S) : \A l \in 1..Cardinality(S) : k < l => q[k] < q[l]

LinkedSeqOf(s, f) == SortedSeqOf(LinkedOf(s, f))

Done == pc \in {"matrix", "vector"} /\ i = NumFacets(origin)

\* what block blk of facet f of surface o, scattered at the dofs of cell,
\* contributes to entry idx of the global vector
BlockShare(o, f, blk, cell, idx) ==
    SeqSum([e \in 1..(bs * ndofs_cell) |->
        IF bs * At(cell_dofs(cell), (e - 1) \div bs) + ((e - 1) % bs) = idx
        THEN KernelValue(o, f, blk, e - 1) ELSE 0])

\* the sum of the self-block contribution of every facet and of the
\* linked-block contribution of every (facet, linked cell) to entry idx
ExpectedEntry(o, idx) ==
    SeqSum([f \in 1..NumFacets(o) |->
        BlockShare(o, f - 1, 0, OwningCell(o, f - 1), idx)
        + SeqSum([j \in 1..Cardinality(LinkedOf(o, f - 1)) |->
              BlockShare(o, f - 1, j, LinkedSeqOf(o, f - 1)[j], idx)])])

\* C2: assemble_vector on a zero vector leaves at every global entry the sum of
\* the self-block contributions of the facets whose cell holds the dof and of the
\* linked-block contributions of the facets linked to a cell holding it, and
\* every order of the facets gives that vector.
C2_VectorIsSumOfBlocks ==
    pc = "vector" /\ Done /\ fill = 0 =>
        /\ \A idx \in 0..(NumRows - 1) : b[idx + 1] = ExpectedEntry(origin, idx)
        /\ \A p \in Perms(NumFacets(origin)) : RunVector(origin, p, 0) = b

\* both facets of surface 1 processed in reversed order, one linked to cells 0
\* and 2 and one to cell 2: the shared dof 1 collects three linked blocks
C2_Witness ==
    /\ pc = "vector" /\ Done /\ fill = 0 /\ origin = 1 /\ order = <<1, 0>>
    /\ Candidates(1, 0) = <<1, 0>> /\ Candidates(1, 1) = <<0>>
    /\ b[bs * 1 + 1] = KernelValue(1, 0, 1, 2) + KernelValue(1, 0, 2, 0) + KernelValue(1, 1, 1, 0)

\* C3: for the facet just processed by assemble_matrix, with numLinked linked
\* cells, exactly 1 + 3 * numLinked mat_set calls were issued: block 0 at
\* (cell x cell) and, for linked cell j, block 3j+1 at (cell x linked_j), block
\* 3j+2 at (linked_j x cell) and block 3j+3 at (linked_j x linked_j).
C3_MatSetCalls ==
    pc = "matrix" /\ kin # None =>
        LET f  == kin.facet
            n  == Cardinality(LinkedOf(origin, f))
            cd == cell_dofs(OwningCell(origin, f))
            ld == [j \in 1..n |-> cell_dofs(LinkedSeqOf(origin, f)[j])]
            At3(k) == [rows |-> calls[k].rows, cols |-> calls[k].cols, blk |-> calls[k].blk]
        IN  /\ Len(calls) = 1 + 3 * n
            /\ At3(1) = [rows |-> cd, cols |-> cd, blk |-> 0]
            /\ \A j \in 0..(n - 1) :
                  /\ At3(3 * j + 2) = [rows |-> cd, cols |-> ld[j + 1], blk |-> 3 * j + 1]
                  /\ At3(3 * j + 3) = [rows |-> ld[j + 1], cols |-> cd, blk |-> 3 * j + 2]
                  /\ At3(3 * j + 4) = [rows |-> ld[j + 1], cols |-> ld[j + 1], blk |-> 3 * j + 3]

\* a facet with two linked cells right after a facet with none
C3_Witness ==
    /\ pc = "matrix" /\ i = 1 /\ kin # None /\ kin.num_linked = 2 /\ Len(calls) = 7
    /\ Candidates(origin, At(order, 1)) = <<>>

\* C4: the pattern create_petsc_matrix builds holds, for both surfaces, every
\* pair of dofs(c) x dofs(l) and of dofs(l) x dofs(c) for the cell c of a
\* facet and every cell l linked to that facet.
C4_PatternHoldsBothDirections ==
    pc = "pattern" =>
        \A s \in Surfaces : \A f \in 0..(NumFacets(s) - 1) : \A l \in LinkedOf(s, f) :
            LET cd == Range(cell_dofs(OwningCell(s, f)))
                ld == Range(cell_dofs(l))
            IN  (cd \X ld) \subseteq pattern /\ (ld \X cd) \subseteq pattern

\* only surface 0 is linked: its facet of cell 0 to cell 1
C4_Witness ==
    /\ pc = "pattern"
    /\ Candidates(0, 1) # <<>> /\ Candidates(0, 0) = <<>>
    /\ \A f \in 0..1 : Candidates(1, f) = <<>>
    /\ <<2, 0>> \in pattern /\ <<0, 3>> \in pattern

\* the two facets of surface 0 resolve, through different facets of surface 1,
\* to one and the same cell
SameParentThroughDistinctFacets ==
    /\ Candidates(0, 0) # <<>> /\ Candidates(0, 1) # <<>>
    /\ Range(Candidates(0, 0)) \cap Range(Candidates(0, 1)) = {}
    /\ LinkedOf(0, 0) = LinkedOf(0, 1) /\ Cardinality(LinkedOf(0, 0)) = 1

Reverse(q) == [k \in 1..Len(q) |-> q[Len(q) + 1 - k]]

\* C5: when the two facets of surface 0 resolve through distinct facets of
\* surface 1 to the same cell P, the resolver gives <<P>> for both, each facet
\* issues the four mat_set calls (self x self, self x P, P x self, P x P), and
\* the facets in reversed order leave the same matrix.
C5_SharedParentOrderFree ==
    pc = "matrix" /\ origin = 0 /\ SameParentThroughDistinctFacets =>
        LET P == CHOOSE c \in LinkedOf(0, 0) : TRUE
        IN  /\ kin # None =>
                LET cd == cell_dofs(OwningCell(0, kin.facet))
                IN  /\ linked_cells = <<P>>
                    /\ [k \in 1..Len(calls) |-> <<calls[k].rows, calls[k].cols>>]
                         = << <<cd, cd>>, <<cd, cell_dofs(P)>>,
                              <<cell_dofs(P), cd>>, <<cell_dofs(P), cell_dofs(P)>> >>
            /\ Done => A = RunMatrix(0, Reverse(order), fill)

\* both facets done on a matrix that was not zero, the first through facet 1
\* of surface 1 and the second through facet 0
C5_Witness ==
    /\ pc = "matrix" /\ origin = 0 /\ Done /\ fill = 1
    /\ Candidates(0, 0) = <<1>> /\ Candidates(0, 1) = <<0>>
    /\ linked_cells = <<1>>
    /\ A[bs * 2 + 1][bs * 2 + 1] = 1 + KernelValue(0, 0, 3, 0) + KernelValue(0, 1, 3, 0)

\* C8: when the kernel is invoked every entry of blocks 0..3 * numLinked
\* (matrix) or 0..numLinked (vector) is zero, whatever the earlier facets left,
\* and the scatter-adds of the facet read only those blocks, so that what they
\* add is what this facet's kernel invocation wrote.
C8_ZeroedBeforeKernel ==
    pc \in {"matrix", "vector"} /\ kin # None =>
        LET last == IF pc = "matrix" THEN 3 * kin.num_linked ELSE kin.num_linked
        IN  /\ \A k \in 0..last : \A e \in 1..Len(kin.blocks[k + 1]) : kin.blocks[k + 1][e] = 0
            /\ \A k \in 1..Len(calls) :
                  /\ calls[k].blk \in 0..last
                  /\ calls[k].vals = [e \in 1..Len(calls[k].vals) |->
                                         KernelValue(origin, kin.facet, calls[k].blk, e - 1)]

\* a facet with one linked cell processed after a facet with two: blocks 4..6
\* still hold what the first kernel invocation wrote
C8_Witness ==
    /\ pc = "matrix" /\ i = 2 /\ kin.num_linked = 1 /\ Len(Aes) = 7
    /\ \A k \in 4..6 : Aes[k + 1][1] = KernelValue(origin, At(order, 0), k, 0)
    /\ \A k \in 0..3 : Aes[k + 1][1] = KernelValue(origin, At(order, 1), k, 0)

\* C10: with each surface's MaxLinks the largest LinkedCellSet of its facets,
\* every block index assemble_matrix zeroes or scatters is at most
\* 3 * max(MaxLinks[0], MaxLinks[1]) and every one assemble_vector zeroes or
\* scatters is at most max(MaxLinks[0], MaxLinks[1]), inside the allocated
\* block set, for either origin surface and after any map updates.
C10_BlocksWithinCapacity ==
    (\A s \in Surfaces : max_links[s] = MaxLinksOf(s, facet_maps[s])) =>
        /\ pc # "ub"
        /\ pc = "matrix" => Len(Aes) = 3 * MaxLinksGlobal + 1
        /\ pc = "vector" => Len(bes) = MaxLinksGlobal + 1
        /\ pc \in {"matrix", "vector"} /\ kin # None =>
              LET cap == IF pc = "matrix" THEN Len(Aes) ELSE Len(bes)
              IN  \A k \in kin.zeroed \cup {calls[c].blk : c \in 1..Len(calls)} :
                     k >= 0 /\ k < cap

\* the origin surface holds the facet with the most linked cells, the other
\* surface a smaller MaxLinks, after both maps were updated
C10_Witness ==
    /\ pc = "matrix" /\ origin = 1 /\ kin # None
    /\ max_links[0] = 1 /\ max_links[1] = 2
    /\ 6 \in kin.zeroed /\ Len(Aes) = 7

-----------------------------------------------------------------------------
(* compute_linked_cells on its own: the inputs are drawn from every candidate
   list of at most MaxLen facets of a submesh of three facets and two cells,
   every facet map and cell map of that submesh, and every previous length of
   the output vector up to MaxLen + 1 *)

ResolverInputs ==
    [facets        : SeqsUpTo(0..2, MaxLen),
     sub_to_parent : [1..3 -> {<<0, 0>>, <<1, 0>>}],
     parent_cells  : [1..2 -> 0..2],
     prior         : {[k \in 1..n |-> 9] : n \in 0..(MaxLen + 1)}]

InitResolve ==
    /\ facet_maps = [s \in Surfaces |-> [k \in 1..NumFacets(s) |-> <<>>]]
    /\ max_links = [s \in Surfaces |-> 0]
    /\ sub_facet_map = [s \in Surfaces |-> SubMeshFacetMap(s)]
    /\ ndebug = FALSE
    /\ rin \in ResolverInputs
    /\ lin = None /\ lout = 0
    /\ pc = "resolve" /\ origin = 0 /\ order = <<>> /\ i = 0 /\ Aes = <<>> /\ bes = <<>>
    /\ linked_cells = rin.prior /\ A = <<>> /\ b = <<>> /\ pattern = {} /\ kin = None
    /\ calls = <<>> /\ fill = 0

Resolve ==
    /\ pc = "resolve"
    /\ pc' = "resolved"
    /\ linked_cells' = compute_linked_cells(linked_cells, rin.facets, rin.sub_to_parent,
                                            rin.parent_cells)
    /\ UNCHANGED <<facet_maps, max_links, sub_facet_map, ndebug, origin, order, i, Aes,
                   bes, A, b, pattern, kin, calls, rin, lin, lout, fill>>

SpecResolve == InitResolve /\ [][Resolve]_vars

\* the parent cells of the candidates of the stand-alone call, as the claim
\* states them: parent_cells[facet_map(f)[0]] over the candidates f
CandidateParents ==
    {rin.parent_cells[rin.sub_to_parent[f + 1][1] + 1] : f \in Range(rin.facets)}

\* C1: the resolver returns a strictly ascending sequence, free of duplicates,
\* whose values are exactly the parent cells of the candidates, whatever the
\* output vector held before; no candidate gives the empty sequence and
\* candidates of one parent cell give a single element.
C1_ResolveSortedUnique ==
    pc = "resolved" =>
        /\ \A k \in 1..Len(linked_cells) : \A l \in 1..Len(linked_cells) :
              k < l => linked_cells[k] < linked_cells[l]
        /\ Range(linked_cells) = CandidateParents
        /\ (rin.facets = <<>> => linked_cells = <<>>)
        /\ (Cardinality(CandidateParents) = 1 => Len(linked_cells) = 1)

\* three candidates whose parent cells come unsorted with a repetition, resolved
\* into a vector that held four stale values
C1_Witness ==
    /\ pc = "resolved"
    /\ Len(rin.facets) = 3 /\ Len(rin.prior) = 4
    /\ LET par == [k \in 1..3 |-> rin.parent_cells[rin.sub_to_parent[rin.facets[k] + 1][1] + 1]]
       IN  par[1] > par[2] /\ par[3] = par[1]
    /\ Len(linked_cells) = 2

-----------------------------------------------------------------------------
(* coefficients_size on its own: the quantities it reads are drawn from
   0..MaxParam *)

InitSize ==
    /\ facet_maps = [s \in Surfaces |-> [k \in 1..NumFacets(s) |-> <<>>]]
    /\ max_links \in [Surfaces -> 0..MaxParam]
    /\ sub_facet_map = [s \in Surfaces |-> SubMeshFacetMap(s)]
    /\ ndebug = FALSE
    /\ rin = None
    /\ lin \in [num_q_points : 0..MaxParam, gdim : 0..MaxParam,
                ndofs_cell : 0..MaxParam, bs : 0..MaxParam]
    /\ lout = 0
    /\ pc = "size" /\ origin = 0 /\ order = <<>> /\ i = 0 /\ Aes = <<>> /\ bes = <<>>
    /\ linked_cells = <<>> /\ A = <<>> /\ b = <<>> /\ pattern = {} /\ kin = None
    /\ calls = <<>> /\ fill = 0

ComputeSize ==
    /\ pc = "size"
    /\ pc' = "sized"
    /\ lout' = coefficients_size
    /\ UNCHANGED <<facet_maps, max_links, sub_facet_map, ndebug, origin, order, i, Aes,
                   bes, linked_cells, A, b, pattern, kin, calls, rin, lin, fill>>

SpecSize == InitSize /\ [][ComputeSize]_vars

\* C6 as stated: the size grows strictly when any one of the five parameters
\* grows by one, for all non-negative values of the other four.
C6_StrictlyIncreasing ==
    pc = "sized" =>
        LET q == lin.num_q_points  g == lin.gdim  d == lin.ndofs_cell
            s == lin.bs            m == MaxLinksGlobal
        IN  /\ lout < LayoutSize(q + 1, g, d, s, m)
            /\ lout < LayoutSize(q, g + 1, d, s, m)
            /\ lout < LayoutSize(q, g, d + 1, s, m)
            /\ lout < LayoutSize(q, g, d, s + 1, m)
            /\ lout < LayoutSize(q, g, d, s, m + 1)

\* C6 as amended: the size never shrinks when one of the five parameters grows
\* by one, and it grows strictly whenever those of numQuadPoints, dofsPerCell
\* and blockSize that are held fixed are positive (gdim and maxLinksGlobal may
\* be 0).
C6_IncreasingWhenPositive ==
    pc = "sized" =>
        LET q == lin.num_q_points  g == lin.gdim  d == lin.ndofs_cell
            s == lin.bs            m == MaxLinksGlobal
        IN  /\ lout <= LayoutSize(q + 1, g, d, s, m)
            /\ lout <= LayoutSize(q, g + 1, d, s, m)
            /\ lout <= LayoutSize(q, g, d + 1, s, m)
            /\ lout <= LayoutSize(q, g, d, s + 1, m)
            /\ lout <= LayoutSize(q, g, d, s, m + 1)
            /\ (d > 0 /\ s > 0 => lout < LayoutSize(q + 1, g, d, s, m))
            /\ (q > 0 /\ d > 0 /\ s > 0 => lout < LayoutSize(q, g + 1, d, s, m))
            /\ (q > 0 /\ s > 0 => lout < LayoutSize(q, g, d + 1, s, m))
            /\ (q > 0 /\ d > 0 => lout < LayoutSize(q, g, d, s + 1, m))
            /\ (q > 0 /\ d > 0 /\ s > 0 => lout < LayoutSize(q, g, d, s, m + 1))

\* a size computed for a surface pair with no current contact
C6_Witness ==
    /\ pc = "sized"
    /\ lin.num_q_points = 4 /\ lin.gdim = 2 /\ lin.ndofs_cell = 3 /\ lin.bs = 2
    /\ max_links[0] = 0 /\ max_links[1] = 0
    /\ lout = 33

\* C7: the returned size is 3 + numQuadPoints * (2 * gdim + dofsPerCell *
\* blockSize * maxLinksGlobal + blockSize) + dofsPerCell * blockSize with
\* maxLinksGlobal the larger of the two MaxLinks; for (4, 2, 3, 2, 2) it is 81.
C7_SizeFormula ==
    pc = "sized" =>
        /\ lout = 3 + lin.num_q_points
                        * (2 * lin.gdim + lin.ndofs_cell * lin.bs * MaxLinksGlobal + lin.bs)
                    + lin.ndofs_cell * lin.bs
        /\ (/\ lin.num_q_points = 4 /\ lin.gdim = 2 /\ lin.ndofs_cell = 3 /\ lin.bs = 2
            /\ MaxLinksGlobal = 2
            => lout = 81)

\* the concrete case, with the larger MaxLinks on the second surface
C7_Witness ==
    /\ pc = "sized"
    /\ lin.num_q_points = 4 /\ lin.gdim = 2 /\ lin.ndofs_cell = 3 /\ lin.bs = 2
    /\ max_links[0] = 1 /\ max_links[1] = 2
    /\ lout = 81

-----------------------------------------------------------------------------
(* A facet map with an entry that is not a pair: one entry of one submesh's
   facet map has lost its local facet index, or carries a third element.  Both
   builds, with and without NDEBUG, are run. *)

Malformed(pair) == {<<pair[1]>>, <<pair[1], pair[2], 0>>}

InitBad ==
    /\ facet_maps = [s \in Surfaces |-> [k \in 1..NumFacets(s) |-> <<>>]]
    /\ max_links = [s \in Surfaces |-> 0]
    /\ \E s \in Surfaces : \E bad \in Malformed(SubMeshFacetMap(s)[1]) :
          sub_facet_map = [t \in Surfaces |->
                              IF t = s THEN [SubMeshFacetMap(s) EXCEPT ![1] = bad]
                              ELSE SubMeshFacetMap(t)]
    /\ ndebug \in BOOLEAN
    /\ rin = None /\ lin = None /\ lout = 0
    /\ Idle

SpecBad == InitBad /\ [][Next]_vars

\* some candidate of facet f of surface s resolves to an entry of the opposite
\* facet map that is not a pair
BadCandidate(s, f) == ~PairsOk(Candidates(s, f), sub_facet_map[opposites(s)])

\* C9 as stated: when a candidate of the facet being processed resolves to an
\* entry that is not a (cell, local facet) pair, the call ends there: the
\* assembly loop issues nothing for that facet, and create_petsc_matrix does not
\* go on to build a pattern.
C9_MalformedEntryEndsCall ==
    [][ /\ (/\ pc \in {"matrix", "vector"} /\ i < NumFacets(origin)
            /\ BadCandidate(origin, At(order, i)))
           => (pc' = "aborted" /\ A' = A /\ b' = b /\ kin' = kin /\ calls' = calls)
        /\ (/\ pc = "idle"
            /\ \E s \in Surfaces : \E f \in 0..(NumFacets(s) - 1) : BadCandidate(s, f))
           => pc' # "pattern" ]_vars

=============================================================================
